---- MODULE Spec2Model ----
(***************************************************************************)
(* Workbook migration pipeline of deploy_workbook.py:                      *)
(*   process_workbook_migration = authenticate, download (with polling),   *)
(*   sign out, modify_and_repackage_workbook, authenticate, publish,       *)
(*   sign out, cleanup.                                                    *)
(* The local directory holds three objects derived from the workbook name: *)
(*   source_<wb>.twbx (srcFile), <wb>_extracted (extractDir) and           *)
(*   modified_<wb>.twbx (modFile).                                         *)
(* File contents are sequences of code units; CR and LF are the carriage   *)
(* return and the line feed, which text-mode file I/O translates.          *)
(* Specifications: Spec (one run), SpecTransform (the Transformer alone),   *)
(* SpecLookup (find_project_by_name), SpecRuns (runs that follow one       *)
(* another), SpecTwo (a second run beside the first) and SpecAthena /      *)
(* SpecAthenaFair (execute_athena_query of packge_schema_deploy.py).       *)
(***************************************************************************)
EXTENDS Integers, Sequences, FiniteSets, TLC

VARIABLES
  pc,                    \* position of the run
  cfg,                   \* the migration configuration (config dict)
  linesep,               \* os.linesep of the platform the script runs on
  srcWorkbook,           \* the archive the source server hosts for the workbook
  dstItems,              \* workbooks of the destination server
  session,               \* state of the source and destination sessions
  signOuts,              \* completed sign_out calls per session
  srcFile,               \* LOCAL_DIRECTORY/source_<wb>.twbx
  modFile,               \* LOCAL_DIRECTORY/modified_<wb>.twbx
  extractDir,            \* LOCAL_DIRECTORY/<wb>_extracted
  dlPending,             \* a download was requested and its file is not yet on disk
  i,                     \* loop variable of the wait loop
  checks,                \* os.path.exists calls made by the wait loop
  waited,                \* seconds slept by the wait loop
  downloaded_twbx_path,  \* result of download_workbook_from_project
  modified_twbx_path,    \* result of modify_and_repackage_workbook
  twb_file_path,         \* the .twb file the transformer located
  trInput,               \* the folder the transformer found and the archive it opened
  pubPath,               \* the path handed to server.workbooks.publish
  res,                   \* outcome of each stage
  log,                   \* the stages and session calls, in the order they were invoked
  projects,              \* the projects of the source and of the destination server
  earlier,               \* what the earlier runs of the pipeline ended with
  attempted,             \* the paths os.remove was called on by the cleanup
  other,                 \* a second run of the pipeline in the same local directory
  athena                 \* a call of execute_athena_query

vars ==
  <<pc, cfg, linesep, srcWorkbook, dstItems, session, signOuts, srcFile, modFile,
    extractDir, dlPending, i, checks, waited, downloaded_twbx_path,
    modified_twbx_path, twb_file_path, trInput, pubPath, res, log,
    projects, earlier, attempted, other, athena>>

-----------------------------------------------------------------------------
(* Bounds of the model *)

MaxContentLen ==
  2

MaxFindLen ==
  2

\* the number of items one page of a server listing holds (100 on the server)
PageSize ==
  2

\* the most projects a server of the lookup runs has
MaxProjects ==
  3

\* the most runs of the pipeline that follow one another
MaxRuns ==
  2

\* the polls of the query status that are counted
MaxPolls ==
  3

-----------------------------------------------------------------------------
(* Values *)

None ==
  <<>>

Char ==
  {"a", "CR", "LF"}

SeqsUpTo(S, n) ==
  UNION {[1..k -> S] : k \in 0..n}

Min(S) ==
  CHOOSE x \in S : \A y \in S : x <= y

\* ENVIRONMENTS: the keys of the connection table
ENVIRONMENTS ==
  {"PROD", "QA", "EUPROD"}

\* a wait loop that runs once more than the code's
max_wait_seconds_off ==
  20 + 1

\* max_wait_seconds = 20, the bound of the wait loop
max_wait_seconds ==
  20

\* os.path.join(LOCAL_DIRECTORY, f"source_{workbook_name}") + ".twbx"
SourcePath(workbook_name) ==
  <<"source_", workbook_name, ".twbx">>

\* os.path.join(LOCAL_DIRECTORY, f"modified_{workbook_name}.twbx")
ModifiedPath(workbook_name) ==
  <<"modified_", workbook_name, ".twbx">>

-----------------------------------------------------------------------------
(* Project names and their lookup *)

LowerChar(c) ==
  CASE c = "F" -> "f"
    [] c = "I" -> "i"
    [] c = "N" -> "n"
    [] c = "O" -> "o"
    [] c = "P" -> "p"
    [] c = "S" -> "s"
    [] OTHER -> c

\* str.lower()
Lower(s) ==
  [k \in 1..Len(s) |-> LowerChar(s[k])]

\* if project_name.startswith('/'): project_name = project_name[1:]
StripSlash(project_name) ==
  IF Len(project_name) > 0 /\ project_name[1] = "/" THEN Tail(project_name)
  ELSE project_name

\* all_projects, _ = server.projects.get(): one request without request options,
\* which the server answers with the first page of its projects; the pagination
\* item that tells of further pages is dropped
ProjectsGet(server_projects) ==
  SubSeq(server_projects, 1, Min({Len(server_projects), PageSize}))

\* the first project of the list whose lower-cased name equals the lower-cased name asked for
find_project_by_name(all_projects, project_name) ==
  LET name == StripSlash(project_name)
      hits == {k \in 1..Len(all_projects) : Lower(all_projects[k]) = Lower(name)}
  IN  IF hits = {} THEN None ELSE all_projects[Min(hits)]

Fin ==
  <<"F", "i", "n">>

Ops ==
  <<"O", "p", "s">>

\* the projects of the source and of the destination server of the pipeline runs
SourceProjects ==
  <<Fin, Ops>>

DestProjects ==
  <<Ops, Fin>>

-----------------------------------------------------------------------------
(* Files, archives and directories *)

TwbTop ==
  [dir |-> "", name |-> "Revenue", ext |-> "twb"]

TwbUpper ==
  [dir |-> "", name |-> "Sheet", ext |-> "TWB"]

TwbNested ==
  [dir |-> "Data", name |-> "inner", ext |-> "twb"]

Hyper ==
  [dir |-> "Data", name |-> "extract", ext |-> "hyper"]

StalePath ==
  [dir |-> "", name |-> "old", ext |-> "twb"]

LowerExt(ext) ==
  IF ext = "TWB" THEN "twb" ELSE ext

\* for file in os.listdir(extract_folder): if file.lower().endswith('.twb')
IsTopLevelTwb(p) ==
  p.dir = "" /\ LowerExt(p.ext) = "twb"

EmptyFiles ==
  [p \in {} |-> <<>>]

NoFile ==
  [exists |-> FALSE, zip |-> FALSE, files |-> EmptyFiles]

ZipFile(files) ==
  [exists |-> TRUE, zip |-> TRUE, files |-> files]

\* a file that is no readable zip archive (truncated or partially written)
BadFile ==
  [exists |-> TRUE, zip |-> FALSE, files |-> EmptyFiles]

NoDir ==
  [exists |-> FALSE, files |-> EmptyFiles]

Dir(files) ==
  [exists |-> TRUE, files |-> files]

Restrict(f, S) ==
  [p \in S |-> f[p]]

\* zip_ref.extractall(extract_folder): every member is written, replacing a file of the same path
ExtractAll(dirFiles, members) ==
  [p \in DOMAIN dirFiles \cup DOMAIN members |->
     IF p \in DOMAIN members THEN members[p] ELSE dirFiles[p]]

\* binary content of the auxiliary files
Blob ==
  <<"CR", "LF", "a">>

MkArchive(twbs, text, aux) ==
  [p \in twbs \cup aux |-> IF p \in twbs THEN text ELSE Blob]

Shapes ==
  { <<{TwbTop}, {}>>, <<{TwbTop}, {Hyper}>>, <<{TwbUpper}, {Hyper}>>,
    <<{TwbNested}, {Hyper}>>, <<{TwbTop, TwbUpper}, {}>> }

Archives(texts) ==
  {MkArchive(sh[1], t, sh[2]) : sh \in Shapes, t \in texts}

-----------------------------------------------------------------------------
(* Text I/O and replacement *)

RECURSIVE ReadText(_)
\* open(path, 'r', encoding='utf-8').read(): universal newlines, so that
\* CR LF and a lone CR are both read as LF
ReadText(b) ==
  IF b = <<>> THEN <<>>
  ELSE IF Head(b) = "CR"
       THEN IF Len(b) >= 2 /\ b[2] = "LF"
            THEN <<"LF">> \o ReadText(SubSeq(b, 3, Len(b)))
            ELSE <<"LF">> \o ReadText(Tail(b))
       ELSE <<Head(b)>> \o ReadText(Tail(b))

RECURSIVE WriteText(_, _)
\* open(path, 'w', encoding='utf-8').write(s): every LF is written as os.linesep
WriteText(s, sep) ==
  IF s = <<>> THEN <<>>
  ELSE IF Head(s) = "LF" THEN sep \o WriteText(Tail(s), sep)
       ELSE <<Head(s)>> \o WriteText(Tail(s), sep)

StartsWith(s, p) ==
  Len(p) <= Len(s) /\ SubSeq(s, 1, Len(p)) = p

\* find_str in content
Contains(s, p) ==
  \E k \in 1..(Len(s) - Len(p) + 1) : SubSeq(s, k, k + Len(p) - 1) = p

RECURSIVE str_replace(_, _, _)
\* content.replace(find_str, replace_str): literal, leftmost, non-overlapping;
\* an empty find string matches before every character and at the end
str_replace(s, old, new) ==
  IF old = <<>>
  THEN IF s = <<>> THEN new
       ELSE new \o <<Head(s)>> \o str_replace(Tail(s), old, new)
  ELSE IF s = <<>> THEN <<>>
       ELSE IF StartsWith(s, old)
            THEN new \o str_replace(SubSeq(s, Len(old) + 1, Len(s)), old, new)
            ELSE <<Head(s)>> \o str_replace(Tail(s), old, new)

\* read, replace, write back: the new bytes of the definition file
ModifiedBytes(bytes, find_str, replace_str, sep) ==
  WriteText(str_replace(ReadText(bytes), find_str, replace_str), sep)

-----------------------------------------------------------------------------
(* Inputs of the pipeline runs *)

WorkbookName ==
  "Revenue"

\* definition-file texts and find strings of the pipeline runs
SampleTexts ==
  {<<"a", "LF">>, <<"CR", "LF">>}

SampleFinds ==
  {<<"a">>, <<"a", "a">>}

SampleReplace ==
  <<"a", "a">>

Configs ==
  [source_env : {"QA", "DEV"},
   dest_env : {"PROD", "DEV"},
   workbook_name : {WorkbookName},
   source_project_name : {<<"f", "i", "n">>, Ops, <<"N", "o">>},
   dest_project_name : {<<"/", "F", "I", "N">>, <<"N", "o">>},
   find : SampleFinds,
   replace : {SampleReplace}]

\* the keys process_workbook_migration reads (url_replacement.find and
\* url_replacement.replace are the fields find and replace)
RequiredFields ==
  {"source_env", "dest_env", "workbook_name", "source_project_name",
   "dest_project_name", "find", "replace"}

\* a JSON null, which json.load reads as None
JsonNull ==
  <<"null">>

\* a configuration file that json.load cannot parse
NotJson ==
  [text |-> "{"]

BaseConfig ==
  [source_env |-> "QA", dest_env |-> "PROD", workbook_name |-> WorkbookName,
   source_project_name |-> Fin, dest_project_name |-> Fin,
   find |-> <<"a">>, replace |-> SampleReplace]

\* configurations that lack a field, that hold a null where a name is required,
\* or that are no JSON
BrokenConfigs ==
  {Restrict(BaseConfig, RequiredFields \ {f}) : f \in RequiredFields}
    \cup {[BaseConfig EXCEPT !.source_project_name = JsonNull], NotJson}

\* what an earlier run may have left in the local directory
StaleFiles ==
  {ZipFile(MkArchive({TwbTop}, <<"a">>, {}))}

StaleDirs ==
  {Dir([p \in {StalePath, TwbTop} |-> <<"LF">>])}

Stages ==
  {"srcAuth", "dl", "tr", "dstAuth", "pub", "cleanup"}

-----------------------------------------------------------------------------
(* State the operations read *)

\* the file at a local path
FileAt(path) ==
  IF path = SourcePath(cfg.workbook_name) THEN srcFile
  ELSE IF path = ModifiedPath(cfg.workbook_name) THEN modFile
  ELSE NoFile

\* project = find_project_by_name(server, project_name) in the Fetcher
SrcProject ==
  find_project_by_name(ProjectsGet(projects["src"]), cfg.source_project_name)

\* project = find_project_by_name(server, project_name) in the Publisher
DstProject ==
  find_project_by_name(ProjectsGet(projects["dst"]), cfg.dest_project_name)

\* server.workbooks.get(req_option): the source server hosts one workbook, in project Fin
MatchingWorkbooks ==
  IF SrcProject = Fin /\ cfg.workbook_name = WorkbookName THEN <<srcWorkbook>> ELSE <<>>

Outcome(stage, what) ==
  res' = [res EXCEPT ![stage] = what]

-----------------------------------------------------------------------------
(* Faulty variants of the code, against which the properties are tested *)

AfterSourceSignOut_noHalt(path) ==
  "tr_clear"

PublishArgument_downloaded(downloaded, modified) ==
  downloaded

CleanupPaths_onlyDownloaded(downloaded, modified) ==
  {downloaded}

ClearExtractFolder_merge(d) ==
  Dir(d.files)

Publish_duplicate(items, item) ==
  items \cup {item}

TerminalStates_noCancelled ==
  {"SUCCEEDED", "FAILED"}

Authenticate_noCheck(env, who, next) ==
  /\ log' = Append(log, IF who = "srcAuth" THEN "src_sign_in" ELSE "dst_sign_in")
  /\ \/ /\ session' = [session EXCEPT ![who] = "open"]
        /\ Outcome(who, "ok")
        /\ pc' = next
     \/ /\ Outcome(who, "raised")
        /\ pc' = "raised"
        /\ UNCHANGED session

-----------------------------------------------------------------------------
(* process_workbook_migration: decisions of the orchestrator *)

\* if not downloaded_twbx_path: return  -- else the Transformer is called
AfterSourceSignOut(path) ==
  IF path = None THEN "done" ELSE "tr_clear"

\* if not modified_twbx_path: return  -- else the destination is signed in
AfterTransform(path) ==
  IF path = None THEN "done" ELSE "pm_dst_auth"

\* publish_modified_workbook(dest_server, modified_twbx_path, ...)
PublishArgument(downloaded, modified) ==
  modified

\* the paths the cleanup removes when they exist
CleanupPaths(downloaded, modified) ==
  {downloaded, modified}

\* shutil.rmtree when the folder exists, then os.makedirs
ClearExtractFolder(d) ==
  Dir(EmptyFiles)

\* server.workbooks.publish(new_workbook, twbx_path, PublishMode.Overwrite): the
\* workbook of that name in that project, if there is one, is replaced
Publish(items, item) ==
  {it \in items : it.project # item.project \/ it.name # item.name} \cup {item}

-----------------------------------------------------------------------------
(* cli and the reading of the configuration *)

\* config_data = json.load(f); process_workbook_migration(config_data); a
\* JSONDecodeError is caught and logged
CliLoad ==
  /\ pc = "cli_load"
  /\ pc' = IF cfg = NotJson THEN "raised" ELSE "pm_start"
  /\ UNCHANGED <<projects, earlier, attempted, other, athena>>
  /\ UNCHANGED <<cfg, linesep, srcWorkbook, dstItems, session, signOuts, srcFile,
                 modFile, extractDir, dlPending, i, checks, waited,
                 downloaded_twbx_path, modified_twbx_path, twb_file_path, trInput,
                 pubPath, res, log>>

\* source_env = config["source_env"] ... url_replace = config["url_replacement"]["replace"]:
\* a key that is missing raises KeyError, which cli catches and logs
PmStart ==
  /\ pc = "pm_start"
  /\ pc' = IF RequiredFields \subseteq DOMAIN cfg THEN "pm_src_auth" ELSE "raised"
  /\ UNCHANGED <<projects, earlier, attempted, other, athena>>
  /\ UNCHANGED <<cfg, linesep, srcWorkbook, dstItems, session, signOuts, srcFile,
                 modFile, extractDir, dlPending, i, checks, waited,
                 downloaded_twbx_path, modified_twbx_path, twb_file_path, trInput,
                 pubPath, res, log>>

-----------------------------------------------------------------------------
(* authenticate *)

Authenticate(env, who, next) ==
  \/ /\ env \notin ENVIRONMENTS
     /\ Outcome(who, "unknown_env")
     /\ pc' = "done"
     /\ UNCHANGED <<session, log>>
  \/ /\ env \in ENVIRONMENTS
     /\ log' = Append(log, IF who = "srcAuth" THEN "src_sign_in" ELSE "dst_sign_in")
     /\ \/ /\ session' = [session EXCEPT ![who] = "open"]
           /\ Outcome(who, "ok")
           /\ pc' = next
        \/ /\ Outcome(who, "raised")
           /\ pc' = "raised"
           /\ UNCHANGED session

\* source_server = authenticate(source_env); if not source_server: return
PmSrcAuth ==
  /\ pc = "pm_src_auth"
  /\ Authenticate(cfg.source_env, "srcAuth", "dl_find_project")
  /\ UNCHANGED <<projects, earlier, attempted, other, athena>>
  /\ UNCHANGED <<cfg, linesep, srcWorkbook, dstItems, signOuts, srcFile, modFile,
                 extractDir, dlPending, i, checks, waited, downloaded_twbx_path,
                 modified_twbx_path, twb_file_path, trInput, pubPath>>

-----------------------------------------------------------------------------
(* download_workbook_from_project *)

DlReturn(path, what) ==
  /\ downloaded_twbx_path' = path
  /\ Outcome("dl", what)
  /\ pc' = "pm_src_signout"

DlFindProject ==
  /\ pc = "dl_find_project"
  /\ log' = Append(log, "download")
  /\ \/ /\ Outcome("dl", "raised")          \* server.projects.get() raises, or the
        /\ pc' = "raised"                   \* name is None and has no startswith
        /\ UNCHANGED downloaded_twbx_path
     \/ /\ cfg.source_project_name # JsonNull
        /\ SrcProject = None
        /\ DlReturn(None, "no_project")
     \/ /\ cfg.source_project_name # JsonNull
        /\ SrcProject # None
        /\ pc' = "dl_query"
        /\ UNCHANGED <<res, downloaded_twbx_path>>
  /\ UNCHANGED <<projects, earlier, attempted, other, athena>>
  /\ UNCHANGED <<cfg, linesep, srcWorkbook, dstItems, session, signOuts, srcFile,
                 modFile, extractDir, dlPending, i, checks, waited,
                 modified_twbx_path, twb_file_path, trInput, pubPath>>

DlQuery ==
  /\ pc = "dl_query"
  /\ \/ /\ Outcome("dl", "raised")          \* server.workbooks.get() raises
        /\ pc' = "raised"
        /\ UNCHANGED downloaded_twbx_path
     \/ /\ MatchingWorkbooks = <<>>
        /\ DlReturn(None, "no_workbook")
     \/ /\ MatchingWorkbooks # <<>>
        /\ pc' = "dl_download"
        /\ UNCHANGED <<res, downloaded_twbx_path>>
  /\ UNCHANGED <<projects, earlier, attempted, other, athena>>
  /\ UNCHANGED <<cfg, linesep, srcWorkbook, dstItems, session, signOuts, srcFile,
                 modFile, extractDir, dlPending, i, checks, waited,
                 modified_twbx_path, twb_file_path, trInput, pubPath, log>>

\* server.workbooks.download(...): the file is on disk when the call returns, or
\* appears while the wait loop runs, or never; a failed download may leave a
\* truncated file
DlDownload ==
  /\ pc = "dl_download"
  /\ \/ /\ srcFile' \in {srcFile, BadFile}
        /\ DlReturn(None, "dl_error")
        /\ UNCHANGED <<dlPending, i>>
     \/ /\ \/ srcFile' = MatchingWorkbooks[1] /\ dlPending' = FALSE
           \/ srcFile' = srcFile /\ dlPending' = TRUE
        /\ i' = 0
        /\ pc' = "dl_poll"
        /\ UNCHANGED <<res, downloaded_twbx_path>>
  /\ UNCHANGED <<projects, earlier, attempted, other, athena>>
  /\ UNCHANGED <<cfg, linesep, srcWorkbook, dstItems, session, signOuts, modFile,
                 extractDir, checks, waited, modified_twbx_path, twb_file_path,
                 trInput, pubPath, log>>

\* the server's file reaches the disk while the wait loop runs
Materialize ==
  /\ pc = "dl_poll"
  /\ dlPending
  /\ srcFile' = MatchingWorkbooks[1]
  /\ dlPending' = FALSE
  /\ UNCHANGED <<projects, earlier, attempted, other, athena>>
  /\ UNCHANGED <<pc, cfg, linesep, srcWorkbook, dstItems, session, signOuts, modFile,
                 extractDir, i, checks, waited, downloaded_twbx_path,
                 modified_twbx_path, twb_file_path, trInput, pubPath, res, log>>

\* one iteration of: for i in range(max_wait_seconds)
DlPoll ==
  /\ pc = "dl_poll"
  /\ i < max_wait_seconds
  /\ checks' = checks + 1
  /\ IF srcFile.exists
     THEN /\ DlReturn(SourcePath(cfg.workbook_name), "ok")
          /\ UNCHANGED <<i, waited>>
     ELSE /\ waited' = waited + 1
          /\ i' = i + 1
          /\ UNCHANGED <<pc, res, downloaded_twbx_path>>
  /\ UNCHANGED <<projects, earlier, attempted, other, athena>>
  /\ UNCHANGED <<cfg, linesep, srcWorkbook, dstItems, session, signOuts, srcFile,
                 modFile, extractDir, dlPending, modified_twbx_path, twb_file_path,
                 trInput, pubPath, log>>

\* the loop ended without finding the file
DlTimeout ==
  /\ pc = "dl_poll"
  /\ i >= max_wait_seconds
  /\ DlReturn(None, "timeout")
  /\ UNCHANGED <<projects, earlier, attempted, other, athena>>
  /\ UNCHANGED <<cfg, linesep, srcWorkbook, dstItems, session, signOuts, srcFile,
                 modFile, extractDir, dlPending, i, checks, waited,
                 modified_twbx_path, twb_file_path, trInput, pubPath, log>>

\* source_server.auth.sign_out(), then the check of the download's result
PmSrcSignOut ==
  /\ pc = "pm_src_signout"
  /\ log' = Append(log, "src_sign_out")
  /\ \/ /\ session' = [session EXCEPT !["srcAuth"] = "closed"]
        /\ signOuts' = [signOuts EXCEPT !["srcAuth"] = @ + 1]
        /\ pc' = AfterSourceSignOut(downloaded_twbx_path)
     \/ /\ pc' = "raised"                   \* sign_out raises
        /\ UNCHANGED <<session, signOuts>>
  /\ UNCHANGED <<projects, earlier, attempted, other, athena>>
  /\ UNCHANGED <<cfg, linesep, srcWorkbook, dstItems, srcFile, modFile, extractDir,
                 dlPending, i, checks, waited, downloaded_twbx_path,
                 modified_twbx_path, twb_file_path, trInput, pubPath, res>>

-----------------------------------------------------------------------------
(* modify_and_repackage_workbook(downloaded_twbx_path, workbook_name, find, replace) *)

TrReturn(path, what) ==
  /\ modified_twbx_path' = path
  /\ Outcome("tr", what)
  /\ pc' = "tr_returned"

TrRaise ==
  /\ Outcome("tr", "raised")
  /\ pc' = "raised"
  /\ UNCHANGED modified_twbx_path

\* if os.path.exists(extract_folder): shutil.rmtree(extract_folder); os.makedirs(extract_folder)
TrClear ==
  /\ pc = "tr_clear"
  /\ log' = Append(log, "transform")
  /\ trInput' = [trInput EXCEPT !.folder = extractDir]
  /\ \/ /\ extractDir.exists               \* rmtree fails: caught, return None
        /\ UNCHANGED extractDir
        /\ TrReturn(None, "clear_fail")
     \/ /\ extractDir' = NoDir             \* makedirs fails: caught, return None
        /\ TrReturn(None, "clear_fail")
     \/ /\ extractDir' = ClearExtractFolder(extractDir)
        /\ pc' = "tr_extract"
        /\ UNCHANGED <<res, modified_twbx_path>>
  /\ UNCHANGED <<projects, earlier, attempted, other, athena>>
  /\ UNCHANGED <<cfg, linesep, srcWorkbook, dstItems, session, signOuts, srcFile,
                 modFile, dlPending, i, checks, waited, downloaded_twbx_path,
                 twb_file_path, pubPath>>

\* with zipfile.ZipFile(twbx_path, 'r') as zip_ref: zip_ref.extractall(extract_folder)
TrExtract ==
  /\ pc = "tr_extract"
  /\ LET f == FileAt(downloaded_twbx_path)
     IN  /\ trInput' = [trInput EXCEPT !.archive = f]
         /\ \/ /\ ~f.zip                    \* no file or no zip archive: caught, return None
               /\ UNCHANGED extractDir
               /\ TrReturn(None, "extract_fail")
            \/ /\ f.zip                     \* extraction stops part-way: caught, return None
               /\ \E S \in (SUBSET DOMAIN f.files) \ {DOMAIN f.files} :
                    extractDir' = Dir(ExtractAll(extractDir.files, Restrict(f.files, S)))
               /\ TrReturn(None, "extract_fail")
            \/ /\ f.zip
               /\ extractDir' = Dir(ExtractAll(extractDir.files, f.files))
               /\ pc' = "tr_locate"
               /\ UNCHANGED <<res, modified_twbx_path>>
  /\ UNCHANGED <<projects, earlier, attempted, other, athena>>
  /\ UNCHANGED <<cfg, linesep, srcWorkbook, dstItems, session, signOuts, srcFile,
                 modFile, dlPending, i, checks, waited, downloaded_twbx_path,
                 twb_file_path, pubPath, log>>

\* the first .twb of os.listdir(extract_folder), in the directory's scan order
TrLocate ==
  /\ pc = "tr_locate"
  /\ LET found == {p \in DOMAIN extractDir.files : IsTopLevelTwb(p)}
     IN  \/ /\ found = {}
            /\ \/ extractDir.exists /\ extractDir' = NoDir /\ TrReturn(None, "no_twb")
               \/ UNCHANGED extractDir /\ TrRaise      \* listdir or rmtree raises
            /\ UNCHANGED twb_file_path
         \/ /\ \E p \in found : twb_file_path' = p
            /\ pc' = "tr_modify"
            /\ UNCHANGED <<extractDir, res, modified_twbx_path>>
  /\ UNCHANGED <<projects, earlier, attempted, other, athena>>
  /\ UNCHANGED <<cfg, linesep, srcWorkbook, dstItems, session, signOuts, srcFile,
                 modFile, dlPending, i, checks, waited, downloaded_twbx_path,
                 trInput, pubPath, log>>

\* read the .twb, content.replace(find_str, replace_str), write it back
TrModify ==
  /\ pc = "tr_modify"
  /\ LET files == extractDir.files
         bytes == files[twb_file_path]
         truncated == IF twb_file_path \in DOMAIN files
                      THEN Dir([files EXCEPT ![twb_file_path] = <<>>])
                      ELSE extractDir
     IN  \/ /\ twb_file_path \in DOMAIN files
            /\ extractDir' =
                 Dir([files EXCEPT ![twb_file_path] =
                        ModifiedBytes(bytes, cfg.find, cfg.replace, linesep)])
            /\ pc' = "tr_rezip"
            /\ UNCHANGED <<res, modified_twbx_path>>
         \/ /\ extractDir.exists          \* read or write fails, rmtree, return None
            /\ extractDir' = NoDir
            /\ TrReturn(None, "rw_fail")
         \/ /\ extractDir' \in {extractDir, truncated}   \* ... and rmtree raises
            /\ TrRaise
  /\ UNCHANGED <<projects, earlier, attempted, other, athena>>
  /\ UNCHANGED <<cfg, linesep, srcWorkbook, dstItems, session, signOuts, srcFile,
                 modFile, dlPending, i, checks, waited, downloaded_twbx_path,
                 twb_file_path, trInput, pubPath, log>>

\* zip every file under extract_folder into modified_<wb>.twbx, then rmtree
TrRezip ==
  /\ pc = "tr_rezip"
  /\ \/ /\ modFile' = ZipFile(extractDir.files)
        /\ \/ /\ extractDir.exists
              /\ extractDir' = NoDir
              /\ TrReturn(ModifiedPath(cfg.workbook_name), "ok")
           \/ UNCHANGED extractDir /\ TrRaise          \* the last rmtree raises
     \/ /\ modFile' \in {modFile, BadFile}  \* the archive cannot be created or completed
        /\ \/ extractDir.exists /\ extractDir' = NoDir /\ TrReturn(None, "zip_fail")
           \/ UNCHANGED extractDir /\ TrRaise
  /\ UNCHANGED <<projects, earlier, attempted, other, athena>>
  /\ UNCHANGED <<cfg, linesep, srcWorkbook, dstItems, session, signOuts, srcFile,
                 dlPending, i, checks, waited, downloaded_twbx_path, twb_file_path,
                 trInput, pubPath, log>>

-----------------------------------------------------------------------------
(* process_workbook_migration, after the Transformer *)

\* if not modified_twbx_path: return
PmCheckTransform ==
  /\ pc = "tr_returned"
  /\ pc' = AfterTransform(modified_twbx_path)
  /\ UNCHANGED <<projects, earlier, attempted, other, athena>>
  /\ UNCHANGED <<cfg, linesep, srcWorkbook, dstItems, session, signOuts, srcFile,
                 modFile, extractDir, dlPending, i, checks, waited,
                 downloaded_twbx_path, modified_twbx_path, twb_file_path, trInput,
                 pubPath, res, log>>

\* dest_server = authenticate(dest_env); if not dest_server: return
PmDstAuth ==
  /\ pc = "pm_dst_auth"
  /\ Authenticate(cfg.dest_env, "dstAuth", "pub_find_project")
  /\ UNCHANGED <<projects, earlier, attempted, other, athena>>
  /\ UNCHANGED <<cfg, linesep, srcWorkbook, dstItems, signOuts, srcFile, modFile,
                 extractDir, dlPending, i, checks, waited, downloaded_twbx_path,
                 modified_twbx_path, twb_file_path, trInput, pubPath>>

\* publish_modified_workbook: the project lookup
PubFindProject ==
  /\ pc = "pub_find_project"
  /\ log' = Append(log, "publish")
  /\ \/ /\ Outcome("pub", "raised")         \* server.projects.get() raises
        /\ pc' = "raised"
     \/ /\ DstProject = None
        /\ Outcome("pub", "no_project")
        /\ pc' = "pm_dst_signout"
     \/ /\ DstProject # None
        /\ pc' = "pub_publish"
        /\ UNCHANGED res
  /\ UNCHANGED <<projects, earlier, attempted, other, athena>>
  /\ UNCHANGED <<cfg, linesep, srcWorkbook, dstItems, session, signOuts, srcFile,
                 modFile, extractDir, dlPending, i, checks, waited,
                 downloaded_twbx_path, modified_twbx_path, twb_file_path, trInput,
                 pubPath>>

\* server.workbooks.publish(new_workbook, twbx_path, PublishMode.Overwrite)
PubPublish ==
  /\ pc = "pub_publish"
  /\ LET path == PublishArgument(downloaded_twbx_path, modified_twbx_path)
         f == FileAt(path)
         item == [project |-> DstProject, name |-> cfg.workbook_name, data |-> f.files]
     IN  /\ pubPath' = path
         /\ \/ /\ f.exists /\ f.zip
               /\ dstItems' = Publish(dstItems, item)
               /\ Outcome("pub", "ok")
            \/ /\ Outcome("pub", "rejected")   \* the call raises: caught and logged
               /\ UNCHANGED dstItems
  /\ pc' = "pm_dst_signout"
  /\ UNCHANGED <<projects, earlier, attempted, other, athena>>
  /\ UNCHANGED <<cfg, linesep, srcWorkbook, session, signOuts, srcFile, modFile,
                 extractDir, dlPending, i, checks, waited, downloaded_twbx_path,
                 modified_twbx_path, twb_file_path, trInput, log>>

\* dest_server.auth.sign_out()
PmDstSignOut ==
  /\ pc = "pm_dst_signout"
  /\ log' = Append(log, "dst_sign_out")
  /\ \/ /\ session' = [session EXCEPT !["dstAuth"] = "closed"]
        /\ signOuts' = [signOuts EXCEPT !["dstAuth"] = @ + 1]
        /\ pc' = "pm_cleanup"
     \/ /\ pc' = "raised"                   \* sign_out raises
        /\ UNCHANGED <<session, signOuts>>
  /\ UNCHANGED <<projects, earlier, attempted, other, athena>>
  /\ UNCHANGED <<cfg, linesep, srcWorkbook, dstItems, srcFile, modFile, extractDir,
                 dlPending, i, checks, waited, downloaded_twbx_path,
                 modified_twbx_path, twb_file_path, trInput, pubPath, res>>

\* the cleanup: os.remove of each path that exists; a failure is logged as a warning
PmCleanup ==
  /\ pc = "pm_cleanup"
  /\ log' = Append(log, "cleanup")
  /\ LET targets == CleanupPaths(downloaded_twbx_path, modified_twbx_path)
         src == SourcePath(cfg.workbook_name)
         mod == ModifiedPath(cfg.workbook_name)
         existing == {p \in targets : FileAt(p).exists}
     IN  \/ /\ srcFile' = IF src \in targets THEN NoFile ELSE srcFile
            /\ modFile' = IF mod \in targets THEN NoFile ELSE modFile
            /\ attempted' = existing
            /\ Outcome("cleanup", "ok")
         \/ /\ src \in existing                     \* the first os.remove raises:
            /\ UNCHANGED <<srcFile, modFile>>        \* the second is not reached
            /\ attempted' = {src}
            /\ Outcome("cleanup", "failed")
         \/ /\ mod \in existing                     \* the second os.remove raises
            /\ srcFile' = IF src \in targets THEN NoFile ELSE srcFile
            /\ UNCHANGED modFile
            /\ attempted' = existing
            /\ Outcome("cleanup", "failed")
  /\ pc' = "done"
  /\ UNCHANGED <<projects, earlier, other, athena>>
  /\ UNCHANGED <<cfg, linesep, srcWorkbook, dstItems, session, signOuts, extractDir,
                 dlPending, i, checks, waited, downloaded_twbx_path,
                 modified_twbx_path, twb_file_path, trInput, pubPath>>

-----------------------------------------------------------------------------
(* execute_athena_query of packge_schema_deploy.py *)

\* no run of the pipeline
NoRun ==
  /\ pc = "idle"
  /\ cfg = BaseConfig
  /\ linesep = <<"LF">>
  /\ srcWorkbook = NoFile
  /\ srcFile = NoFile
  /\ extractDir = NoDir
  /\ downloaded_twbx_path = None
  /\ projects = [src |-> SourceProjects, dst |-> DestProjects]
  /\ dstItems = {}
  /\ session = [s \in {"srcAuth", "dstAuth"} |-> "none"]
  /\ signOuts = [s \in {"srcAuth", "dstAuth"} |-> 0]
  /\ modFile = NoFile
  /\ dlPending = FALSE
  /\ i = 0
  /\ checks = 0
  /\ waited = 0
  /\ modified_twbx_path = None
  /\ twb_file_path = None
  /\ trInput = [folder |-> NoDir, archive |-> NoFile]
  /\ pubPath = None
  /\ res = [s \in Stages |-> "none"]
  /\ log = <<>>
  /\ earlier = <<>>
  /\ attempted = {}
  /\ other = [pc |-> "idle"]

\* if status in ['SUCCEEDED', 'FAILED', 'CANCELLED']
TerminalStates ==
  {"SUCCEEDED", "FAILED", "CANCELLED"}

\* the states of a query execution in Athena
QueryStates ==
  {"QUEUED", "RUNNING", "SUCCEEDED", "FAILED", "CANCELLED"}

\* the call execute_athena_query(athena_client, query, database_name)
AthenaCall(query, database_name) ==
  [pc |-> "start", query |-> query, database |-> database_name,
   query_execution_id |-> None, state |-> "none", status |-> "none",
   polls |-> 0, result |-> None, error |-> "none"]

AthenaStep(new) ==
  /\ athena' = new
  /\ UNCHANGED <<pc, cfg, linesep, srcWorkbook, dstItems, session, signOuts, srcFile,
                 modFile, extractDir, dlPending, i, checks, waited,
                 downloaded_twbx_path, modified_twbx_path, twb_file_path, trInput,
                 pubPath, res, log, projects, earlier, attempted, other>>

\* response = athena_client.start_query_execution(...); an exception of the
\* call is logged and raised again
AqStart ==
  /\ athena.pc = "start"
  /\ \/ \E id \in {<<"q-1">>, <<"q-2">>} :
          AthenaStep([athena EXCEPT !.query_execution_id = id, !.state = "QUEUED",
                                    !.pc = "poll"])
     \/ AthenaStep([athena EXCEPT !.error = "api", !.pc = "raised"])

\* Athena runs the query
QueryProgress ==
  /\ athena.pc \in {"poll", "returned", "raised"}
  /\ \/ /\ athena.state = "QUEUED"
        /\ \E st \in {"RUNNING", "FAILED", "CANCELLED"} :
             AthenaStep([athena EXCEPT !.state = st])
     \/ /\ athena.state = "RUNNING"
        /\ \E st \in {"SUCCEEDED", "FAILED", "CANCELLED"} :
             AthenaStep([athena EXCEPT !.state = st])

\* one iteration of the while True loop: get_query_execution, the test of
\* the status, and either the end of the call or time.sleep(5)
AqPoll ==
  /\ athena.pc = "poll"
  /\ LET status == athena.state
         polled == [athena EXCEPT !.status = status,
                                  !.polls = IF @ < MaxPolls THEN @ + 1 ELSE @]
     IN  \/ AthenaStep([athena EXCEPT !.error = "api", !.pc = "raised"])
         \/ /\ status \in TerminalStates
            /\ IF status = "SUCCEEDED"
               THEN AthenaStep([polled EXCEPT !.pc = "returned",
                                              !.result = athena.query_execution_id])
               ELSE AthenaStep([polled EXCEPT !.pc = "raised", !.error = "query"])
         \/ /\ status \notin TerminalStates
            /\ AthenaStep(polled)

InitAthena ==
  /\ NoRun
  /\ \E q \in {"SELECT 1", "CREATE SCHEMA s"}, db \in {None, <<"db">>} :
       athena = AthenaCall(q, db)

NextAthena ==
  \/ AqStart
  \/ QueryProgress
  \/ AqPoll

SpecAthena ==
  InitAthena /\ [][NextAthena]_vars

\* the call runs on: a call that can take its next step takes it
SpecAthenaFair ==
  SpecAthena /\ WF_vars(AqStart) /\ WF_vars(AqPoll)

-----------------------------------------------------------------------------
(* Specifications *)

Fresh ==
  /\ dstItems = {}
  /\ session = [s \in {"srcAuth", "dstAuth"} |-> "none"]
  /\ signOuts = [s \in {"srcAuth", "dstAuth"} |-> 0]
  /\ modFile = NoFile
  /\ dlPending = FALSE
  /\ i = 0
  /\ checks = 0
  /\ waited = 0
  /\ modified_twbx_path = None
  /\ twb_file_path = None
  /\ trInput = [folder |-> NoDir, archive |-> NoFile]
  /\ pubPath = None
  /\ res = [s \in Stages |-> "none"]
  /\ log = <<>>
  /\ earlier = <<>>
  /\ attempted = {}
  /\ other = [pc |-> "idle"]
  /\ athena = [pc |-> "idle"]

\* a run of process_workbook_migration(config)
Init ==
  /\ pc = "cli_load"
  /\ cfg \in Configs \cup BrokenConfigs
  /\ linesep \in {<<"LF">>, <<"CR", "LF">>}
  /\ srcWorkbook \in {ZipFile(a) : a \in Archives(SampleTexts)} \cup {BadFile}
  /\ srcFile \in {NoFile} \cup StaleFiles
  /\ extractDir \in {NoDir} \cup StaleDirs
  /\ downloaded_twbx_path = None
  /\ projects = [src |-> SourceProjects, dst |-> DestProjects]
  /\ Fresh

Next ==
  \/ CliLoad
  \/ PmStart
  \/ PmSrcAuth
  \/ DlFindProject
  \/ DlQuery
  \/ DlDownload
  \/ Materialize
  \/ DlPoll
  \/ DlTimeout
  \/ PmSrcSignOut
  \/ TrClear
  \/ TrExtract
  \/ TrLocate
  \/ TrModify
  \/ TrRezip
  \/ PmCheckTransform
  \/ PmDstAuth
  \/ PubFindProject
  \/ PubPublish
  \/ PmDstSignOut
  \/ PmCleanup

Spec ==
  Init /\ [][Next]_vars

\* a call of modify_and_repackage_workbook on any archive, directory state and string pair
TransformConfigs ==
  [source_env : {"QA"},
   dest_env : {"PROD"},
   workbook_name : {WorkbookName},
   source_project_name : {Fin},
   dest_project_name : {Fin},
   find : SeqsUpTo(Char, MaxFindLen),
   replace : {<<>>, SampleReplace, <<"LF">>}]

InitTransform ==
  /\ pc = "tr_clear"
  /\ cfg \in TransformConfigs
  /\ linesep \in {<<"LF">>, <<"CR", "LF">>}
  /\ srcWorkbook = NoFile
  /\ srcFile \in {ZipFile(a) : a \in Archives(SeqsUpTo(Char, MaxContentLen))} \cup {BadFile}
  /\ extractDir \in {NoDir, Dir(EmptyFiles)} \cup StaleDirs
  /\ downloaded_twbx_path = SourcePath(WorkbookName)
  /\ projects = [src |-> SourceProjects, dst |-> DestProjects]
  /\ Fresh

NextTransform ==
  \/ TrClear
  \/ TrExtract
  \/ TrLocate
  \/ TrModify
  \/ TrRezip

SpecTransform ==
  InitTransform /\ [][NextTransform]_vars

\* the script is started again, in the same local directory and against the
\* same servers, with a configuration for the same workbook
RunConfigs ==
  {[BaseConfig EXCEPT !.find = f] : f \in SampleFinds}

NextRun ==
  /\ pc \in {"done", "raised"}
  /\ Len(earlier) + 1 < MaxRuns
  /\ earlier' = Append(earlier, [res |-> res, dstItems |-> dstItems])
  /\ pc' = "cli_load"
  /\ cfg' \in RunConfigs
  /\ session' = [s \in {"srcAuth", "dstAuth"} |-> "none"]
  /\ signOuts' = [s \in {"srcAuth", "dstAuth"} |-> 0]
  /\ dlPending' = FALSE
  /\ i' = 0
  /\ checks' = 0
  /\ waited' = 0
  /\ downloaded_twbx_path' = None
  /\ modified_twbx_path' = None
  /\ twb_file_path' = None
  /\ trInput' = [folder |-> NoDir, archive |-> NoFile]
  /\ pubPath' = None
  /\ res' = [s \in Stages |-> "none"]
  /\ log' = <<>>
  /\ attempted' = {}
  /\ UNCHANGED <<linesep, srcWorkbook, dstItems, srcFile, modFile, extractDir,
                 projects, other, athena>>

InitRuns ==
  /\ pc = "cli_load"
  /\ cfg \in RunConfigs
  /\ linesep = <<"LF">>
  /\ srcWorkbook = ZipFile(MkArchive({TwbTop}, <<"a", "LF">>, {Hyper}))
  /\ srcFile = NoFile
  /\ extractDir = NoDir
  /\ downloaded_twbx_path = None
  /\ projects = [src |-> SourceProjects, dst |-> DestProjects]
  /\ Fresh

NextRuns ==
  \/ Next
  \/ NextRun

SpecRuns ==
  InitRuns /\ [][NextRuns]_vars

\* A second run of the script for the same workbook, started while the first
\* is running: its steps on the three paths of the local directory, in the
\* order of its code. It migrates the same workbook of the same source server
\* with another find string, to a destination of its own.
OtherConfig ==
  [BaseConfig EXCEPT !.find = <<"a", "a">>]

OtherAt(here, next) ==
  /\ other.pc = here
  /\ other' = [other EXCEPT !.pc = next]
  /\ UNCHANGED <<pc, cfg, linesep, srcWorkbook, dstItems, session, signOuts, dlPending,
                 i, checks, waited, downloaded_twbx_path, modified_twbx_path,
                 twb_file_path, trInput, pubPath, res, log, projects, earlier,
                 attempted, athena>>

\* server.workbooks.download(workbook_to_download.id, filepath=download_path_base)
OtherDownload ==
  /\ OtherAt("start", "clear")
  /\ srcFile' = srcWorkbook
  /\ UNCHANGED <<modFile, extractDir>>

\* shutil.rmtree(extract_folder) when it exists; os.makedirs(extract_folder)
OtherClear ==
  /\ OtherAt("clear", "extract")
  /\ extractDir' = ClearExtractFolder(extractDir)
  /\ UNCHANGED <<srcFile, modFile>>

\* zip_ref.extractall(extract_folder); without a readable archive the run returns
OtherExtract ==
  /\ IF srcFile.zip
     THEN /\ OtherAt("extract", "modify")
          /\ extractDir' = Dir(ExtractAll(extractDir.files, srcFile.files))
     ELSE /\ OtherAt("extract", "done")
          /\ UNCHANGED extractDir
  /\ UNCHANGED <<srcFile, modFile>>

\* the first .twb of the folder is read, replaced in and written back
OtherModify ==
  /\ LET found == {p \in DOMAIN extractDir.files : IsTopLevelTwb(p)}
     IN  IF found = {}
         THEN /\ OtherAt("modify", "done")
              /\ extractDir' = NoDir
         ELSE /\ OtherAt("modify", "rezip")
              /\ \E p \in found :
                   extractDir' =
                     Dir([extractDir.files EXCEPT ![p] =
                            ModifiedBytes(@, OtherConfig.find, OtherConfig.replace, linesep)])
  /\ UNCHANGED <<srcFile, modFile>>

\* the folder is zipped into modified_<wb>.twbx and removed
OtherRezip ==
  /\ IF extractDir.exists
     THEN OtherAt("rezip", "cleanup")
     ELSE OtherAt("rezip", "done")
  /\ modFile' = ZipFile(extractDir.files)
  /\ extractDir' = NoDir
  /\ UNCHANGED srcFile

\* after its publish: os.remove of both archives
OtherCleanup ==
  /\ OtherAt("cleanup", "done")
  /\ srcFile' = NoFile
  /\ modFile' = NoFile
  /\ UNCHANGED extractDir

InitTwo ==
  /\ pc = "cli_load"
  /\ cfg = BaseConfig
  /\ linesep = <<"LF">>
  /\ srcWorkbook = ZipFile(MkArchive({TwbTop}, <<"a", "LF">>, {Hyper}))
  /\ srcFile = NoFile
  /\ extractDir = NoDir
  /\ downloaded_twbx_path = None
  /\ projects = [src |-> SourceProjects, dst |-> DestProjects]
  /\ dstItems = {}
  /\ session = [s \in {"srcAuth", "dstAuth"} |-> "none"]
  /\ signOuts = [s \in {"srcAuth", "dstAuth"} |-> 0]
  /\ modFile = NoFile
  /\ dlPending = FALSE
  /\ i = 0
  /\ checks = 0
  /\ waited = 0
  /\ modified_twbx_path = None
  /\ twb_file_path = None
  /\ trInput = [folder |-> NoDir, archive |-> NoFile]
  /\ pubPath = None
  /\ res = [s \in Stages |-> "none"]
  /\ log = <<>>
  /\ earlier = <<>>
  /\ attempted = {}
  /\ other \in {[pc |-> "idle"], [pc |-> "start"]}
  /\ athena = [pc |-> "idle"]

NextTwo ==
  \/ Next
  \/ OtherDownload
  \/ OtherClear
  \/ OtherExtract
  \/ OtherModify
  \/ OtherRezip
  \/ OtherCleanup

SpecTwo ==
  InitTwo /\ [][NextTwo]_vars

\* a call of find_project_by_name by the Fetcher, on any server and for any name
LookupProjectNames ==
  {Fin, <<"F", "I", "N">>, Ops, <<"N", "o">>}

LookupNames ==
  {Fin, <<"f", "i", "n">>, <<"F", "I", "N">>, <<"/", "F", "I", "N">>,
   Ops, <<"o", "p", "s">>, <<"N", "o">>, <<"/", "X">>}

\* lists of projects with different names
ProjectLists ==
  {l \in SeqsUpTo(LookupProjectNames, MaxProjects) :
     \A j, k \in 1..Len(l) : l[j] = l[k] => j = k}

LookupConfigs ==
  [source_env : {"QA"},
   dest_env : {"PROD"},
   workbook_name : {WorkbookName},
   source_project_name : LookupNames,
   dest_project_name : {Fin},
   find : {<<"a">>},
   replace : {SampleReplace}]

InitLookup ==
  /\ pc = "dl_find_project"
  /\ cfg \in LookupConfigs
  /\ linesep = <<"LF">>
  /\ srcWorkbook = BadFile
  /\ srcFile = NoFile
  /\ extractDir = NoDir
  /\ downloaded_twbx_path = None
  /\ \E l \in ProjectLists : projects = [src |-> l, dst |-> DestProjects]
  /\ dstItems = {}
  /\ session = [s \in {"srcAuth", "dstAuth"} |-> IF s = "srcAuth" THEN "open" ELSE "none"]
  /\ signOuts = [s \in {"srcAuth", "dstAuth"} |-> 0]
  /\ modFile = NoFile
  /\ dlPending = FALSE
  /\ i = 0
  /\ checks = 0
  /\ waited = 0
  /\ modified_twbx_path = None
  /\ twb_file_path = None
  /\ trInput = [folder |-> NoDir, archive |-> NoFile]
  /\ pubPath = None
  /\ res = [s \in Stages |-> IF s = "srcAuth" THEN "ok" ELSE "none"]
  /\ log = <<"src_sign_in">>
  /\ earlier = <<>>
  /\ attempted = {}
  /\ other = [pc |-> "idle"]
  /\ athena = [pc |-> "idle"]

NextLookup ==
  DlFindProject

SpecLookup ==
  InitLookup /\ [][NextLookup]_vars

-----------------------------------------------------------------------------
(* Properties *)

Ended ==
  pc \in {"done", "raised"}

Invoked(e) ==
  \E k \in 1..Len(log) : log[k] = e

Failed(stage) ==
  res[stage] \notin {"none", "ok"}

PublisherFailureReported ==
  res["pub"] \in {"no_project", "rejected"}

\* C1: when the run has ended, every session that a successful authenticate()
\* opened has been signed out exactly once, whatever step failed or raised.
C1_SessionsSignedOutOnce ==
  Ended => \A s \in {"srcAuth", "dstAuth"} : res[s] = "ok" => signOuts[s] = 1

\* C2 as stated: after a run in which the Publisher failed (project not found
\* or publish rejected), the downloaded and the transformed archive both
\* still exist on disk.
C2_ArtifactsKeptAfterPublisherFailure ==
  (Ended /\ PublisherFailureReported) => (srcFile.exists /\ modFile.exists)

\* C2 as amended: a Publisher failure of these two kinds does not stop the run;
\* when the run then returns, the cleanup has been run, and unless a removal
\* failed neither archive exists on disk any more.
C2_ArtifactsRemovedAfterPublisherFailure ==
  (pc = "done" /\ PublisherFailureReported) =>
     /\ Invoked("cleanup")
     /\ res["cleanup"] = "ok" => (~srcFile.exists /\ ~modFile.exists)

C2_Witness ==
  /\ pc = "done"
  /\ res["pub"] = "no_project"
  /\ res["cleanup"] = "ok"
  /\ ~srcFile.exists
  /\ ~modFile.exists

\* C3: when the run has returned, on success or after any stage failure,
\* neither the downloaded archive nor the transformed archive is left on disk,
\* unless a file removal itself failed.
C3_NoArtifactsWhenRunEnds ==
  (pc = "done" /\ res["cleanup"] # "failed") =>
     /\ downloaded_twbx_path # None => ~FileAt(downloaded_twbx_path).exists
     /\ ~modFile.exists

\* C4: fail-fast. After a failed source authentication no download is
\* attempted; after a failed download neither the transform nor the destination
\* authentication nor the publish is invoked; after a failed transform neither
\* the destination authentication nor the publish; after a failed destination
\* authentication no publish.
C4_FailFast ==
  /\ Failed("srcAuth") =>
       ~Invoked("download") /\ res["dl"] = "none"
  /\ Failed("dl") =>
       ~Invoked("transform") /\ res["dstAuth"] = "none" /\ ~Invoked("publish")
  /\ Failed("tr") =>
       res["dstAuth"] = "none" /\ ~Invoked("dst_sign_in") /\ ~Invoked("publish")
  /\ Failed("dstAuth") =>
       ~Invoked("publish") /\ res["pub"] = "none"

C4_Witness ==
  /\ pc = "done"
  /\ res["dl"] = "no_workbook"
  /\ log = <<"src_sign_in", "download", "src_sign_out">>

C5_PollState ==
  /\ checks <= 20
  /\ waited <= 20
  /\ res["dl"] = "ok" =>
       /\ downloaded_twbx_path = SourcePath(cfg.workbook_name)
       /\ waited = checks - 1
  /\ res["dl"] = "timeout" =>
       /\ checks = 20
       /\ waited = 20
       /\ downloaded_twbx_path = None
       /\ pc \in {"pm_src_signout", "done", "raised"}
       /\ ~Invoked("transform")
       /\ ~Invoked("publish")

C5_PollStep ==
  (pc = "dl_poll" /\ checks' # checks) =>
     /\ checks' = checks + 1
     /\ IF srcFile.exists
        THEN /\ downloaded_twbx_path' = SourcePath(cfg.workbook_name)
             /\ res'["dl"] = "ok"
             /\ waited' = waited
        ELSE /\ waited' = waited + 1
             /\ pc' = "dl_poll"

\* C5: the wait loop checks for the file at most 20 times, sleeping one second
\* after each check that does not find it; the check that finds the file
\* returns the path at once; after 20 checks without the file the download
\* reports a timeout, returns no path, and the run ends without the
\* Transformer or the Publisher.
C5_BoundedPolling ==
  []C5_PollState /\ [][C5_PollStep]_vars

C5_Witness ==
  /\ pc = "done"
  /\ res["dl"] = "timeout"
  /\ checks = 20

\* C6: whenever modify_and_repackage_workbook has returned, with a path or
\* after a failure of the extraction, of the .twb search, of the read/write or
\* of the re-zip, the extraction folder does not exist. (A return caused by
\* the folder's own removal or creation failing is left out.)
C6_ExtractFolderGoneOnReturn ==
  (pc = "tr_returned" /\ res["tr"] # "clear_fail") => ~extractDir.exists

AllSucceeded ==
  \A s \in Stages : res[s] = "ok"

\* the archive the Transformer makes of its input
Transformed ==
  [trInput.archive.files EXCEPT
     ![twb_file_path] = ModifiedBytes(@, cfg.find, cfg.replace, linesep)]

\* C7: in a run where every stage succeeded the steps were taken in the order
\* source sign-in, download, source sign-out, transform, destination sign-in,
\* publish, destination sign-out, cleanup; the file published is
\* modified_<wb>.twbx, holding the transformed archive, under the configured
\* workbook name in the destination project; and both local archives are gone.
C7_SuccessfulRun ==
  (pc = "done" /\ AllSucceeded) =>
     /\ log = <<"src_sign_in", "download", "src_sign_out", "transform",
                "dst_sign_in", "publish", "dst_sign_out", "cleanup">>
     /\ pubPath = ModifiedPath(cfg.workbook_name)
     /\ dstItems = {[project |-> Fin, name |-> cfg.workbook_name, data |-> Transformed]}
     /\ ~srcFile.exists
     /\ ~modFile.exists

C7_Witness ==
  /\ pc = "done"
  /\ AllSucceeded
  /\ dstItems # {}

\* C8: when the find string does not occur in the definition file, the
\* Transformer that completes returns the path of the repackaged archive, the
\* run goes on to the Publisher, and in that archive the definition file has
\* its original content and every other file is identical to the original.
C8_FindAbsentKeepsArchive ==
  (pc = "tr_returned" /\ res["tr"] = "ok"
     /\ ~Contains(trInput.archive.files[twb_file_path], cfg.find)) =>
     /\ modified_twbx_path = ModifiedPath(cfg.workbook_name)
     /\ AfterTransform(modified_twbx_path) = "pm_dst_auth"
     /\ modFile.files = trInput.archive.files

\* C9: when the find string occurs in the definition file, the content written
\* back is the original content with every non-overlapping occurrence of the
\* find string, taken literally and from left to right, replaced, and
\* everything else unchanged.
C9_EveryOccurrenceReplaced ==
  (pc = "tr_rezip" /\ cfg.find # <<>>
     /\ Contains(trInput.archive.files[twb_file_path], cfg.find)) =>
     extractDir.files[twb_file_path] =
       str_replace(trInput.archive.files[twb_file_path], cfg.find, cfg.replace)

\* C10: whatever the extraction folder held before, the archive produced has
\* exactly the relative file paths of the input archive.
C10_SamePaths ==
  (pc = "tr_returned" /\ res["tr"] = "ok") =>
     /\ modFile.zip
     /\ DOMAIN modFile.files = DOMAIN trInput.archive.files

C10_Witness ==
  /\ pc = "tr_returned"
  /\ res["tr"] = "ok"
  /\ trInput.folder.exists
  /\ StalePath \in DOMAIN trInput.folder.files
  /\ DOMAIN modFile.files = DOMAIN trInput.archive.files

\* C11: find_project_by_name resolves a name (written with or without the
\* leading "/") by case-insensitive equality over all the projects of the
\* server: when some project's name equals the name in some letter case, the
\* lookup returns such a project, and when none does, it returns no project and
\* the Fetcher reports the project as not found.
C11_CaseInsensitiveOverAllProjects ==
  (pc \in {"dl_query", "pm_src_signout"}) =>
     LET name == StripSlash(cfg.source_project_name)
         all == projects["src"]
         matches == {k \in 1..Len(all) : Lower(all[k]) = Lower(name)}
     IN  /\ matches # {} =>
               /\ pc = "dl_query"
               /\ SrcProject \in {all[k] : k \in matches}
         /\ matches = {} =>
               /\ SrcProject = None
               /\ res["dl"] = "no_project"

\* the destination holds at most one workbook of a name in a project
C12_AtMostOne ==
  \A a, b \in dstItems : (a.project = b.project /\ a.name = b.name) => a = b

\* the destination changes only by a publish that succeeds, which puts the
\* content of the published file under the name and leaves every other name alone
C12_PublishStep ==
  ((pc = "pub_publish" /\ res'["pub"] = "ok") \/ dstItems' # dstItems) =>
     LET item == [project |-> DstProject, name |-> cfg.workbook_name,
                  data |-> FileAt(pubPath').files]
     IN  /\ pc = "pub_publish"
         /\ res'["pub"] = "ok"
         /\ item \in dstItems'
         /\ \A it \in dstItems' \ {item} :
               it \in dstItems /\ (it.project # item.project \/ it.name # item.name)

\* C12: publishing overwrites. After any sequence of runs that publish workbook
\* name N into project P, P holds at most one workbook named N, and it carries
\* the content of the most recent publish that succeeded.
C12_OverwritePolicy ==
  []C12_AtMostOne /\ [][C12_PublishStep]_vars

\* a second run has published content that differs from what the first published
C12_Witness ==
  /\ Len(earlier) = 1
  /\ earlier[1].res["pub"] = "ok"
  /\ res["pub"] = "ok"
  /\ earlier[1].dstItems # dstItems
  /\ dstItems = {[project |-> Fin, name |-> WorkbookName, data |-> modFile.files]}

\* C13: authenticate called with an environment name that is no key of
\* ENVIRONMENTS reports a configuration error and attempts no sign-in, no
\* session is opened, and the run returns without entering the stages that
\* would have used the session.
C13_UnknownEnvironment ==
  /\ (res["srcAuth"] # "none" /\ cfg.source_env \notin {"PROD", "QA", "EUPROD"}) =>
       /\ res["srcAuth"] = "unknown_env"
       /\ ~Invoked("src_sign_in")
       /\ session["srcAuth"] = "none"
       /\ pc = "done"
       /\ log = <<>>
  /\ (res["dstAuth"] # "none" /\ cfg.dest_env \notin {"PROD", "QA", "EUPROD"}) =>
       /\ res["dstAuth"] = "unknown_env"
       /\ ~Invoked("dst_sign_in")
       /\ session["dstAuth"] = "none"
       /\ pc = "done"
       /\ ~Invoked("publish")
       /\ res["pub"] = "none"

C13_Witness ==
  /\ pc = "done"
  /\ cfg.dest_env = "DEV"
  /\ res["srcAuth"] = "ok"
  /\ res["dstAuth"] = "unknown_env"
  /\ log = <<"src_sign_in", "download", "src_sign_out", "transform">>

\* the configuration is no JSON, lacks a required field, or holds a null in
\* the place of the source project's name
ConfigMalformed ==
  \/ ~(RequiredFields \subseteq DOMAIN cfg)
  \/ cfg.source_project_name = JsonNull

\* C14: when the migration configuration is malformed or lacks a required
\* field, the run fails before any network call: no sign-in, no download and
\* no publish is issued in that run.
C14_MalformedConfigFailsBeforeNetwork ==
  ConfigMalformed =>
     /\ ~Invoked("src_sign_in")
     /\ ~Invoked("dst_sign_in")
     /\ ~Invoked("download")
     /\ ~Invoked("publish")
     /\ \A s \in {"srcAuth", "dstAuth"} : session[s] = "none"

\* the archive the Transformer makes of the run's own download
OwnTransformed ==
  [srcWorkbook.files EXCEPT
     ![twb_file_path] = ModifiedBytes(@, cfg.find, cfg.replace, linesep)]

\* the run's downloaded file was gone when the Transformer opened it
LostDownload ==
  /\ res["dl"] = "ok"
  /\ res["tr"] = "extract_fail"
  /\ ~trInput.archive.exists

\* the run has published content that is not the transform of its own download
PublishedForeign ==
  /\ res["pub"] = "ok"
  /\ \E it \in dstItems : it.data # OwnTransformed

\* C15: two runs for the same workbook name that execute concurrently are
\* unsafe, because both use source_<wb>.twbx, <wb>_extracted and
\* modified_<wb>.twbx. A run loses its downloaded file or publishes content
\* that is not derived from its own download only when another run has been
\* started beside it; and with another run beside it there is an interleaving
\* in which that happens (the witness).
C15_UnsafeOnlyByConcurrentRun ==
  (LostDownload \/ PublishedForeign) => other.pc # "idle"

\* the run returned normally after publishing what the other run had written
C15_Witness ==
  /\ pc = "done"
  /\ AllSucceeded
  /\ PublishedForeign
  /\ other.pc # "idle"
  /\ \A it \in dstItems : DOMAIN it.data = DOMAIN srcWorkbook.files

\* C16: the cleanup tolerates failure. A removal that fails is logged as a
\* warning and not escalated, so that process_workbook_migration ends normally,
\* and the cleanup attempts the removal of each of the two archives that
\* exists: an archive that is still on disk after the cleanup is one whose
\* removal was attempted.
C16_CleanupTolerant ==
  Invoked("cleanup") =>
     /\ pc = "done"
     /\ res["cleanup"] \in {"ok", "failed"}
     /\ \A p \in {SourcePath(cfg.workbook_name), ModifiedPath(cfg.workbook_name)} :
          FileAt(p).exists => p \in attempted

AthenaEnded ==
  athena.pc \in {"returned", "raised"}

\* the call goes on polling exactly while the status it observed is not terminal
C17_StopsOnlyAtTerminal ==
  /\ (AthenaEnded /\ athena.query_execution_id # None) =>
       athena.status \in {"SUCCEEDED", "FAILED", "CANCELLED"}
  /\ athena.pc = "poll" => athena.status \notin {"SUCCEEDED", "FAILED", "CANCELLED"}

C17_StopsAtTerminalOrApiError ==
  /\ (AthenaEnded /\ athena.query_execution_id # None) =>
       \/ athena.status \in {"SUCCEEDED", "FAILED", "CANCELLED"}
       \/ athena.error = "api"
  /\ athena.pc = "poll" => athena.status \notin {"SUCCEEDED", "FAILED", "CANCELLED"}
  /\ athena.error = "api" => athena.pc = "raised"

\* the id is returned exactly when SUCCEEDED was observed; FAILED and CANCELLED raise
C17_Outcome ==
  /\ athena.pc = "returned" <=> athena.status = "SUCCEEDED"
  /\ athena.pc = "returned" =>
       athena.result = athena.query_execution_id /\ athena.result # None
  /\ athena.status \in {"FAILED", "CANCELLED"} =>
       athena.pc = "raised" /\ athena.error = "query" /\ athena.result = None

\* a query that has reached a terminal state leads to the end of the call
C17_Ends ==
  (athena.state \in {"SUCCEEDED", "FAILED", "CANCELLED"}) ~> AthenaEnded

\* C17 as stated: execute_athena_query keeps polling the query status while it
\* is not terminal and stops only at a terminal state; it returns the query
\* execution id if and only if the terminal state observed is SUCCEEDED, and
\* raises when it is FAILED or CANCELLED; if the query reaches a terminal state
\* the call eventually ends.
C17_PollsUntilTerminal ==
  [](C17_StopsOnlyAtTerminal /\ C17_Outcome) /\ C17_Ends

\* C17 as amended: the polling stops at a terminal state or when an Athena API
\* call raises, in which case the call raises as well; the rest as stated.
C17_PollsUntilTerminalOrApiError ==
  [](C17_StopsAtTerminalOrApiError /\ C17_Outcome) /\ C17_Ends

\* a status request raised while the query was running, after polls that
\* found it not terminal
C17_Witness ==
  /\ athena.pc = "raised"
  /\ athena.error = "api"
  /\ athena.status = "RUNNING"
  /\ athena.polls >= 2

\* C18: whenever download_workbook_from_project returns a path, the file at
\* that path was written by the download issued in that call, whatever the
\* local directory held before; the archive the Transformer opens is the one
\* this run downloaded, never a file an earlier run left behind.
C18_ReturnedFileIsThisDownload ==
  /\ (pc = "pm_src_signout" /\ res["dl"] = "ok") =>
       /\ ~dlPending
       /\ FileAt(downloaded_twbx_path) = srcWorkbook
  /\ trInput.archive.exists => trInput.archive = srcWorkbook

====
